---- MODULE Spec2Model ----
(***************************************************************************)
(* fqlib/validators.py: the ValidationLevel resolver and the five read     *)
(* validators.  Python strings are sequences of one-character strings;     *)
(* other Python values are records tagged with their type.                 *)
(***************************************************************************)
EXTENDS Integers, Sequences, FiniteSets, TLC

VARIABLES
    pc,         \* position of the calling script
    value,      \* the argument handed to ValidationLevel.resolve
    result,     \* what resolve(value) did: returned a value or raised
    result2,    \* what resolve(result) did, when the first call returned
    readone,    \* a read: its name, sequence, plusline and quality
    readtwo,    \* the read asserted to be the mate of readone
    attrs,      \* the class attributes level and code of each validator
    outcome,    \* the latest validate call and the tuple it returned
    first,      \* the earliest validate call and the tuple it returned
    ncalls,     \* how many validate calls have returned
    threshold,  \* the minimum level of the runner's current run
    arity,      \* "single" or "paired": what the current run validates
    idx,        \* the catalog position the current run has come to
    report,     \* the (code, outcome) pairs the current run has collected
    prev        \* threshold, arity and report of the run before this one

vars ==
    << pc, value, result, result2, readone, readtwo, attrs, outcome, first,
       ncalls, threshold, arity, idx, report, prev >>

readvars == << readone, readtwo, attrs, outcome, first, ncalls >>
resolvevars == << value, result, result2 >>
runnervars == << threshold, arity, idx, report, prev >>

----------------------------------------------------------------------------
(* Python values *)

PyNone == [type |-> "NoneType"]
PyStr(s) == [type |-> "str", chars |-> s]
PyInt(n) == [type |-> "int", n |-> n]
PyBytes(s) == [type |-> "bytes", chars |-> s]
PyList == [type |-> "list"]
PyInstance == [type |-> "ValidationLevel"]

\* nothing has been returned or raised yet
Pending == [tag |-> "pending"]
Return(v) == [tag |-> "return", value |-> v]
Raise(exc, msg) == [tag |-> "raise", exc |-> exc, msg |-> msg]

RECURSIVE Flatten(_)
Flatten(ss) == IF ss = << >> THEN << >> ELSE Head(ss) \o Flatten(Tail(ss))

\* needle occurs in hay as a contiguous run of characters
Contains(hay, needle) ==
    \E i \in 0..(Len(hay) - Len(needle)) :
        SubSeq(hay, i + 1, i + Len(needle)) = needle

----------------------------------------------------------------------------
(* class ValidationLevel *)

MINIMUM == 1
LOW == 2
HIGH == 3

UpperToLower ==
    [c \in {"H", "I", "G", "L", "O", "W", "M", "N", "U", "R", "Z"} |->
        CASE c = "H" -> "h" [] c = "I" -> "i" [] c = "G" -> "g"
          [] c = "L" -> "l" [] c = "O" -> "o" [] c = "W" -> "w"
          [] c = "M" -> "m" [] c = "N" -> "n" [] c = "U" -> "u"
          [] c = "R" -> "r" [] c = "Z" -> "z"]

\* str.lower() on one character: an uppercase letter (those the inputs
\* use are tabulated) maps to its lowercase form, U+0130 maps to the two
\* characters "i" U+0307, every other character is kept
LowerChar(c) ==
    IF c \in DOMAIN UpperToLower THEN << UpperToLower[c] >>
    ELSE IF c = "U+0130" THEN << "i", "U+0307" >>
    ELSE << c >>

lower(s) == Flatten([i \in 1..Len(s) |-> LowerChar(s[i])])

\* "not value" on a str
IsEmpty(s) == Len(s) = 0

\* isinstance(value, ValidationLevel): true of objects built from the class,
\* not of the class attributes MINIMUM, LOW and HIGH, which are ints
IsInstanceOfValidationLevel(v) == v.type = "ValidationLevel"

IsInstanceOfStr(v) == v.type = "str"

Digit == [n \in 0..9 |->
    CASE n = 0 -> "0" [] n = 1 -> "1" [] n = 2 -> "2" [] n = 3 -> "3"
      [] n = 4 -> "4" [] n = 5 -> "5" [] n = 6 -> "6" [] n = 7 -> "7"
      [] n = 8 -> "8" [] n = 9 -> "9"]

\* format(value) inside the f-string of the error message
Format(v) ==
    CASE v.type = "str" -> v.chars
      [] v.type = "NoneType" -> << "N", "o", "n", "e" >>
      [] v.type = "list" -> << "[", "]" >>
      [] v.type = "int" -> << Digit[v.n] >>
      [] v.type = "bytes" -> << "b", "'" >> \o v.chars \o << "'" >>
      [] OTHER -> << "<", "o", "b", "j", "e", "c", "t", ">" >>

ResolveMessagePrefix ==
    << "U", "n", "k", "n", "o", "w", "n", " ", "s", "i", "n", "g",
       "l", "e", " ", "r", "e", "a", "d", " ", "v", "a", "l", "i",
       "d", "a", "t", "i", "o", "n", " ", "l", "e", "v", "e", "l",
       ":", " " >>

ResolveError(v) ==
    Raise("ValueError", ResolveMessagePrefix \o Format(v) \o << "." >>)

high == << "h", "i", "g", "h" >>
low == << "l", "o", "w" >>
minimum == << "m", "i", "n", "i", "m", "u", "m" >>

\* resolve with the lowering of "low" forgotten
resolve_case_sensitive(v) ==
    IF IsInstanceOfValidationLevel(v) THEN Return(v)
    ELSE IF IsInstanceOfStr(v) THEN
        IF lower(v.chars) = high THEN Return(PyInt(HIGH))
        ELSE IF v.chars = low THEN Return(PyInt(LOW))
        ELSE IF lower(v.chars) = minimum \/ IsEmpty(v.chars)
            THEN Return(PyInt(MINIMUM))
        ELSE ResolveError(v)
    ELSE ResolveError(v)

resolve(v) ==
    IF IsInstanceOfValidationLevel(v) THEN Return(v)
    ELSE IF IsInstanceOfStr(v) THEN
        IF lower(v.chars) = high THEN Return(PyInt(HIGH))
        ELSE IF lower(v.chars) = low THEN Return(PyInt(LOW))
        ELSE IF lower(v.chars) = minimum \/ IsEmpty(v.chars)
            THEN Return(PyInt(MINIMUM))
        ELSE ResolveError(v)
    ELSE ResolveError(v)

----------------------------------------------------------------------------
(* The read container and the five validators *)

Read(name, sequence, plusline, quality) ==
    [name |-> name, sequence |-> sequence, plusline |-> plusline,
     quality |-> quality]

EmptyRead == Read(<< >>, << >>, << >>, << >>)

SingleValidators == {"PluslineValidator", "AlphabetValidator",
                     "ReadnameValidator", "CompleteReadValidator"}

PairedValidators == {"PairedReadnameValidator"}

PluslineValidator_level == MINIMUM
\* AlphabetValidator registered one level too high
AlphabetValidator_level_high == HIGH

AlphabetValidator_level == LOW
ReadnameValidator_level == HIGH
CompleteReadValidator_level == MINIMUM
PairedReadnameValidator_level == LOW

ClassAttrs ==
    [v \in SingleValidators \cup PairedValidators |->
        CASE v = "PluslineValidator" ->
                [level |-> PluslineValidator_level, code |-> "S001"]
          [] v = "AlphabetValidator" ->
                [level |-> AlphabetValidator_level, code |-> "S002"]
          [] v = "ReadnameValidator" ->
                [level |-> ReadnameValidator_level, code |-> "S003"]
          [] v = "CompleteReadValidator" ->
                [level |-> CompleteReadValidator_level, code |-> "S004"]
          [] v = "PairedReadnameValidator" ->
                [level |-> PairedReadnameValidator_level, code |-> "P001"]]

PluslineMessage ==
    << "T", "h", "e", " ", "p", "l", "u", "s", "l", "i", "n", "e",
       " ", "i", "s", " ", "n", "o", "t", " ", "f", "o", "r", "m",
       "a", "t", "t", "e", "d", " ", "c", "o", "r", "r", "e", "c",
       "t", "l", "y", ".", " ", "I", "t", "'", "s", " ", "p", "o",
       "s", "s", "i", "b", "l", "e", " ", "t", "h", "i", "s", " ",
       "i", "s", " ", "a", " ", "F", "a", "s", "t", "A", " ", "f",
       "i", "l", "e", " ", "o", "r", " ", "t", "h", "a", "t", " ",
       "t", "h", "e", " ", "r", "e", "a", "d", "s", " ", "a", "r",
       "e", " ", "n", "o", "t", " ", "c", "o", "r", "r", "e", "c",
       "t", "l", "y", " ", "f", "o", "r", "m", "e", "d", "." >>

AlphabetMessagePrefix ==
    << "N", "o", "n", "-", "A", "C", "T", "G", "N", " ", "b", "a",
       "s", "e", " ", "f", "o", "u", "n", "d", " ", "i", "n", " ",
       "s", "e", "q", "u", "e", "n", "c", "e", " " >>

ReadnameMessage ==
    << "R", "e", "a", "d", " ", "n", "a", "m", "e", " ", "m", "u",
       "s", "t", " ", "s", "t", "a", "r", "t", " ", "w", "i", "t",
       "h", " ", "@" >>

CompleteMessage ==
    << "R", "e", "a", "d", " ", "i", "s", " ", "n", "o", "t", " ",
       "c", "o", "m", "p", "l", "e", "t", "e", "." >>

PairedReadnameMessage ==
    << "R", "e", "a", "d", " ", "n", "a", "m", "e", "s", " ", "d",
       "o", " ", "n", "o", "t", " ", "m", "a", "t", "c", "h", "." >>

\* str.startswith(prefix)
startswith(s, prefix) ==
    Len(s) >= Len(prefix) /\ SubSeq(s, 1, Len(prefix)) = prefix

\* the plusline only has to start with "+"
PluslineValidator_validate_prefix(read) ==
    IF IsEmpty(read.plusline) \/ ~startswith(read.plusline, << "+" >>)
    THEN << FALSE, PyStr(PluslineMessage) >>
    ELSE << TRUE, PyNone >>

PluslineValidator_validate(read) ==
    IF IsEmpty(read.plusline) \/ read.plusline # << "+" >>
    THEN << FALSE, PyStr(PluslineMessage) >>
    ELSE << TRUE, PyNone >>

\* the character class [^ACGTNacgtn]
NonACGTN(c) == c \notin {"A", "C", "G", "T", "N", "a", "c", "g", "t", "n"}

\* re.search("[^ACGTNacgtn]", s): the leftmost position where the
\* pattern matches, 0 for None
re_search(s) ==
    IF \E i \in 1..Len(s) : NonACGTN(s[i])
    THEN CHOOSE i \in 1..Len(s) :
            NonACGTN(s[i]) /\ \A j \in 1..(i - 1) : ~NonACGTN(s[j])
    ELSE 0

\* re.match in place of re.search: only the first character is looked at
AlphabetValidator_validate_match(read) ==
    IF Len(read.sequence) > 0 /\ NonACGTN(read.sequence[1])
    THEN << FALSE, PyStr(AlphabetMessagePrefix \o read.sequence) >>
    ELSE << TRUE, PyNone >>

\* a failure of the call before sticks to this one
AlphabetValidator_validate_sticky(read) ==
    IF outcome # Pending /\ ~outcome.returned[1]
    THEN outcome.returned
    ELSE IF re_search(read.sequence) # 0
    THEN << FALSE, PyStr(AlphabetMessagePrefix \o read.sequence) >>
    ELSE << TRUE, PyNone >>

AlphabetValidator_validate(read) ==
    IF re_search(read.sequence) # 0
    THEN << FALSE, PyStr(AlphabetMessagePrefix \o read.sequence) >>
    ELSE << TRUE, PyNone >>

\* "@" in read.name in place of startswith
ReadnameValidator_validate_contains(read) ==
    IF ~(\E i \in 1..Len(read.name) : read.name[i] = "@")
    THEN << FALSE, PyStr(ReadnameMessage) >>
    ELSE << TRUE, PyNone >>

ReadnameValidator_validate(read) ==
    IF ~startswith(read.name, << "@" >>)
    THEN << FALSE, PyStr(ReadnameMessage) >>
    ELSE << TRUE, PyNone >>

\* the quality field left out of the test
CompleteReadValidator_validate_three(read) ==
    IF IsEmpty(read.name) \/ IsEmpty(read.sequence) \/ IsEmpty(read.plusline)
    THEN << FALSE, PyStr(CompleteMessage) >>
    ELSE << TRUE, PyNone >>

\* the failure returned without its message
CompleteReadValidator_validate_bare(read) ==
    IF IsEmpty(read.name) \/ IsEmpty(read.sequence)
        \/ IsEmpty(read.plusline) \/ IsEmpty(read.quality)
    THEN << FALSE, PyNone >>
    ELSE << TRUE, PyNone >>

CompleteReadValidator_validate(read) ==
    IF IsEmpty(read.name) \/ IsEmpty(read.sequence)
        \/ IsEmpty(read.plusline) \/ IsEmpty(read.quality)
    THEN << FALSE, PyStr(CompleteMessage) >>
    ELSE << TRUE, PyNone >>

\* the first name only has to start with the second
PairedReadnameValidator_validate_prefix(one, two) ==
    IF ~startswith(one.name, two.name)
    THEN << FALSE, PyStr(PairedReadnameMessage) >>
    ELSE << TRUE, PyNone >>

PairedReadnameValidator_validate(one, two) ==
    IF ~(one.name = two.name)
    THEN << FALSE, PyStr(PairedReadnameMessage) >>
    ELSE << TRUE, PyNone >>

\* the concrete validators of each contract, in the order the module
\* defines them
Catalog(ar) ==
    IF ar = "single"
    THEN << "PluslineValidator", "AlphabetValidator", "ReadnameValidator",
            "CompleteReadValidator" >>
    ELSE << "PairedReadnameValidator" >>

\* no run has started
RunnerIdle ==
    /\ threshold = MINIMUM
    /\ arity = "single"
    /\ idx = 0
    /\ report = << >>
    /\ prev = Pending

----------------------------------------------------------------------------
(* Inputs of resolve *)

\* how many characters are appended to a word to make an unrecognized text
MaxExtra == 1

ExtraChars == {" ", "h", "R", "z", "U+0130"}

Words == {high, low, minimum}

upper(c) ==
    IF \E u \in DOMAIN UpperToLower : UpperToLower[u] = c
    THEN CHOOSE u \in DOMAIN UpperToLower : UpperToLower[u] = c
    ELSE c

\* every mixed-case spelling of the word w
Spellings(w) ==
    {[i \in 1..Len(w) |-> IF mask[i] THEN upper(w[i]) ELSE w[i]] :
        mask \in [1..Len(w) -> BOOLEAN]}

Prefixes(w) == {SubSeq(w, 1, k) : k \in 0..Len(w)}

Extras == UNION {[1..k -> ExtraChars] : k \in 0..MaxExtra}

StrInputs ==
    {s \o e : s \in UNION {Spellings(p) : p \in UNION {Prefixes(w) : w \in Words}},
              e \in Extras}
      \cup {e \o s : s \in UNION {Spellings(w) : w \in Words}, e \in Extras}

\* the class attributes and their integer neighbours
IntInputs == {PyInt(n) : n \in (MINIMUM - 1)..(HIGH + 1)}

Levels == {PyInt(MINIMUM), PyInt(LOW), PyInt(HIGH)}

ResolveInputs ==
    {PyStr(s) : s \in StrInputs} \cup IntInputs
      \cup {PyNone, PyList, PyInstance, PyBytes(high)}

InitResolve ==
    /\ pc = "start"
    /\ value \in ResolveInputs
    /\ result = Pending
    /\ result2 = Pending
    /\ readone = EmptyRead
    /\ readtwo = EmptyRead
    /\ attrs = ClassAttrs
    /\ outcome = Pending
    /\ first = Pending
    /\ ncalls = 0
    /\ RunnerIdle

\* level = ValidationLevel.resolve(value)
Resolve ==
    /\ pc = "start"
    /\ result' = resolve(value)
    /\ pc' = "resolved"
    /\ UNCHANGED << value, result2, readvars, runnervars >>

\* ValidationLevel.resolve(level), on the value the first call returned
ResolveAgain ==
    /\ pc = "resolved"
    /\ result.tag = "return"
    /\ result2' = resolve(result.value)
    /\ pc' = "done"
    /\ UNCHANGED << value, result, readvars, runnervars >>

NextResolve == Resolve \/ ResolveAgain

SpecResolve == InitResolve /\ [][NextResolve]_vars

----------------------------------------------------------------------------
(* A caller that validates the same two reads again and again *)

\* every string over chars of at most n characters
Strs(chars, n) == UNION {[1..k -> chars] : k \in 0..n}

\* how many validate calls the caller makes
MaxCalls == 3

PairNames == {<< >>, << "@" >>, << "r" >>, << "@", "r" >>}
PairSequences == {<< "A" >>, << "Z" >>}
PairPluslines == {<< >>, << "+" >>}
PairQualities == {<< >>, << "I" >>}

PairReads ==
    {Read(n, s, p, q) : n \in PairNames, s \in PairSequences,
                        p \in PairPluslines, q \in PairQualities}

\* the read object a caller passes: 1 is readone, 2 is readtwo
Arg(id) == IF id = 1 THEN readone ELSE readtwo

Call(v, args, returned) ==
    [validator |-> v, args |-> args, returned |-> returned,
     reads |-> << readone, readtwo >>, attrs |-> attrs]

InitSession ==
    /\ pc = "session"
    /\ value = PyNone
    /\ result = Pending
    /\ result2 = Pending
    /\ readone \in PairReads
    /\ readtwo \in PairReads
    /\ attrs = ClassAttrs
    /\ outcome = Pending
    /\ first = Pending
    /\ ncalls = 0
    /\ RunnerIdle

\* validator.validate(read): the caller keeps the tuple it returns;
\* neither the reads nor the class attributes are assigned to
PluslineValidate ==
    \E id \in {1, 2} :
        /\ ncalls < MaxCalls
        /\ outcome' = Call("PluslineValidator", << id >>,
                           PluslineValidator_validate(Arg(id)))
        /\ first' = IF first = Pending THEN outcome' ELSE first
        /\ ncalls' = ncalls + 1
        /\ UNCHANGED << pc, readone, readtwo, attrs, resolvevars, runnervars >>

AlphabetValidate ==
    \E id \in {1, 2} :
        /\ ncalls < MaxCalls
        /\ outcome' = Call("AlphabetValidator", << id >>,
                           AlphabetValidator_validate(Arg(id)))
        /\ first' = IF first = Pending THEN outcome' ELSE first
        /\ ncalls' = ncalls + 1
        /\ UNCHANGED << pc, readone, readtwo, attrs, resolvevars, runnervars >>

ReadnameValidate ==
    \E id \in {1, 2} :
        /\ ncalls < MaxCalls
        /\ outcome' = Call("ReadnameValidator", << id >>,
                           ReadnameValidator_validate(Arg(id)))
        /\ first' = IF first = Pending THEN outcome' ELSE first
        /\ ncalls' = ncalls + 1
        /\ UNCHANGED << pc, readone, readtwo, attrs, resolvevars, runnervars >>

CompleteReadValidate ==
    \E id \in {1, 2} :
        /\ ncalls < MaxCalls
        /\ outcome' = Call("CompleteReadValidator", << id >>,
                           CompleteReadValidator_validate(Arg(id)))
        /\ first' = IF first = Pending THEN outcome' ELSE first
        /\ ncalls' = ncalls + 1
        /\ UNCHANGED << pc, readone, readtwo, attrs, resolvevars, runnervars >>

\* validator.validate(readone, readtwo), with the mates in either order
PairedReadnameValidate ==
    \E a \in {1, 2} :
        /\ ncalls < MaxCalls
        /\ outcome' = Call("PairedReadnameValidator", << a, 3 - a >>,
                           PairedReadnameValidator_validate(Arg(a), Arg(3 - a)))
        /\ first' = IF first = Pending THEN outcome' ELSE first
        /\ ncalls' = ncalls + 1
        /\ UNCHANGED << pc, readone, readtwo, attrs, resolvevars, runnervars >>

NextSession ==
    \/ PluslineValidate
    \/ AlphabetValidate
    \/ ReadnameValidate
    \/ CompleteReadValidate
    \/ PairedReadnameValidate

SpecSession == InitSession /\ [][NextSession]_vars

----------------------------------------------------------------------------
(* A caller that runs one single-read validator once on one read *)

MaxNameLen == 2
MaxPluslineLen == 2
MaxSequenceLen == 2

Names == Strs({"@", "r"}, MaxNameLen)
Pluslines == Strs({"+", "-"}, MaxPluslineLen)
Qualities == {<< >>, << "I" >>}

ACGTNacgtn == << "A", "C", "G", "T", "N", "a", "c", "g", "t", "n" >>

\* another letter, a lowercase letter, a digit, a blank, a line feed
OtherChars == {"B", "u", "7", " ", "LF"}

\* ACGTNacgtn itself, and ACGTNacgtn with one character replaced
Probes ==
    {ACGTNacgtn} \cup
    {[ACGTNacgtn EXCEPT ![i] = c] : i \in 1..Len(ACGTNacgtn), c \in OtherChars}

Sequences == Strs({"A", "n", "Z"}, MaxSequenceLen) \cup Probes

SingleReads ==
    {Read(n, s, p, q) : n \in Names, s \in Sequences,
                        p \in Pluslines, q \in Qualities}

InitSingle ==
    /\ pc = "single"
    /\ value = PyNone
    /\ result = Pending
    /\ result2 = Pending
    /\ readone \in SingleReads
    /\ readtwo = EmptyRead
    /\ attrs = ClassAttrs
    /\ outcome = Pending
    /\ first = Pending
    /\ ncalls = 0
    /\ RunnerIdle

SinglePlusline == ncalls = 0 /\ PluslineValidate
SingleAlphabet == ncalls = 0 /\ AlphabetValidate
SingleReadname == ncalls = 0 /\ ReadnameValidate
SingleCompleteRead == ncalls = 0 /\ CompleteReadValidate

NextSingle ==
    \/ SinglePlusline
    \/ SingleAlphabet
    \/ SingleReadname
    \/ SingleCompleteRead

SpecSingle == InitSingle /\ [][NextSingle]_vars

----------------------------------------------------------------------------
(* The validation runner: one report per record or pair *)

RunnerReads ==
    {EmptyRead,
     Read(<< "@", "r", "1" >>, ACGTNacgtn, << "+" >>,
          << "I", "I", "I", "I", "I", "I", "I", "I", "I", "I" >>),
     Read(<< "r", "1" >>, << "A", "C", "G", "Z" >>, << "+" >>,
          << "I", "I", "I", "I" >>),
     Read(<< "@", "r", "2" >>, << "A" >>, << "-" >>, << "I" >>),
     Read(<< "@", "r", "1" >>, << "7" >>, << >>, << "I" >>)}

\* the validate call of validator v on the record or pair being validated
Invoke(v) ==
    CASE v = "PluslineValidator" -> PluslineValidator_validate(readone)
      [] v = "AlphabetValidator" -> AlphabetValidator_validate(readone)
      [] v = "ReadnameValidator" -> ReadnameValidator_validate(readone)
      [] v = "CompleteReadValidator" ->
            CompleteReadValidator_validate(readone)
      [] v = "PairedReadnameValidator" ->
            PairedReadnameValidator_validate(readone, readtwo)

InitRunner ==
    /\ pc = "idle"
    /\ value = PyNone
    /\ result = Pending
    /\ result2 = Pending
    /\ readone \in RunnerReads
    /\ readtwo \in RunnerReads
    /\ attrs = ClassAttrs
    /\ outcome = Pending
    /\ first = Pending
    /\ ncalls = 0
    /\ RunnerIdle

\* a run starts on the record (or pair) with a resolved threshold
RunnerStart ==
    /\ pc \in {"idle", "returned"}
    /\ \E T \in {MINIMUM, LOW, HIGH}, ar \in {"single", "paired"} :
        /\ threshold' = T
        /\ arity' = ar
    /\ idx' = 1
    /\ report' = << >>
    /\ prev' = IF pc = "returned"
               THEN [threshold |-> threshold, arity |-> arity,
                     report |-> report]
               ELSE Pending
    /\ pc' = "running"
    /\ UNCHANGED << resolvevars, readvars >>

\* the validator at idx is selected: it is invoked and its outcome appended
RunnerInvoke ==
    /\ pc = "running"
    /\ idx <= Len(Catalog(arity))
    /\ LET v == Catalog(arity)[idx]
       IN  /\ attrs[v].level >= threshold
           /\ report' = Append(report, << attrs[v].code, Invoke(v) >>)
    /\ idx' = idx + 1
    /\ UNCHANGED << pc, threshold, arity, prev, resolvevars, readvars >>

\* the validator at idx is below the threshold: it is passed over
RunnerSkip ==
    /\ pc = "running"
    /\ idx <= Len(Catalog(arity))
    /\ attrs[Catalog(arity)[idx]].level < threshold
    /\ idx' = idx + 1
    /\ UNCHANGED << pc, threshold, arity, report, prev, resolvevars, readvars >>

\* the catalog is exhausted: the report is handed to the caller
RunnerReturn ==
    /\ pc = "running"
    /\ idx > Len(Catalog(arity))
    /\ pc' = "returned"
    /\ UNCHANGED << runnervars, resolvevars, readvars >>

NextRunner == RunnerStart \/ RunnerInvoke \/ RunnerSkip \/ RunnerReturn

SpecRunner == InitRunner /\ [][NextRunner]_vars

----------------------------------------------------------------------------
(* Properties *)

\* s is the word w up to the case of its letters
CaseFolds(s, w) ==
    /\ Len(s) = Len(w)
    /\ \A i \in 1..Len(w) : s[i] \in {w[i], upper(w[i])}

\* resolve raised a ValueError whose message holds the value's text
Rejected ==
    /\ result.tag = "raise"
    /\ result.exc = "ValueError"
    /\ Contains(result.msg, Format(value))

\* C1: on a string, resolve returns HIGH exactly for the spellings of
\* "high", LOW exactly for those of "low", MINIMUM exactly for those of
\* "minimum" and for the empty string; every other string, and every value
\* that is neither a string nor a level, is rejected with a ValueError
\* naming the value.
C1_ResolveText ==
    pc # "start" =>
        /\ value.type = "str" =>
            LET s == value.chars
            IN  /\ (result = Return(PyInt(HIGH))) <=> CaseFolds(s, high)
                /\ (result = Return(PyInt(LOW))) <=> CaseFolds(s, low)
                /\ (result = Return(PyInt(MINIMUM))) <=>
                        (CaseFolds(s, minimum) \/ s = << >>)
                /\ ~(\/ CaseFolds(s, high) \/ CaseFolds(s, low)
                     \/ CaseFolds(s, minimum) \/ s = << >>) => Rejected
        /\ (/\ value.type \notin {"str", "ValidationLevel"}
            /\ value \notin Levels) => Rejected

C1_Witness ==
    /\ pc = "resolved"
    /\ value = PyStr(<< "L", "o", "W" >>)
    /\ result = Return(PyInt(LOW))

\* C2: resolve returns each of MINIMUM, LOW and HIGH unchanged, and
\* resolving the value a successful resolve returned gives that value again.
C2_LevelPassthrough ==
    /\ (pc # "start" /\ value \in Levels) => result = Return(value)
    /\ pc = "done" => result2 = result

Passed(call) == call.returned[1]

\* the reads a call was given, as they were when it was made
ArgReads(call) == [i \in DOMAIN call.args |-> call.reads[call.args[i]]]

Returns(v) == outcome # Pending /\ outcome.validator = v

\* C3: PluslineValidator passes exactly when the plusline is "+".
C3_PluslineExact ==
    Returns("PluslineValidator") =>
        (Passed(outcome) <=> ArgReads(outcome)[1].plusline = << "+" >>)

C3_Witness ==
    /\ Returns("PluslineValidator")
    /\ ArgReads(outcome)[1] =
            Read(<< "@", "r" >>, << "A" >>, << "+", "+" >>, << "I" >>)
    /\ ~Passed(outcome)

\* C4: AlphabetValidator passes exactly when every character of the
\* sequence is one of ACGTNacgtn; a failure's message holds the sequence.
C4_AlphabetOnly ==
    Returns("AlphabetValidator") =>
        LET s == ArgReads(outcome)[1].sequence
        IN  /\ Passed(outcome) <=>
                \A i \in 1..Len(s) :
                    \E k \in 1..Len(ACGTNacgtn) : s[i] = ACGTNacgtn[k]
            /\ ~Passed(outcome) =>
                /\ outcome.returned[2].type = "str"
                /\ Contains(outcome.returned[2].chars, s)

C4_Witness ==
    /\ Returns("AlphabetValidator")
    /\ ArgReads(outcome)[1].sequence = [ACGTNacgtn EXCEPT ![10] = "7"]
    /\ ~Passed(outcome)

\* C5: ReadnameValidator passes exactly when the name's first character
\* is "@"; the empty name fails.
C5_ReadnameSentinel ==
    Returns("ReadnameValidator") =>
        LET n == ArgReads(outcome)[1].name
        IN  Passed(outcome) <=> (Len(n) >= 1 /\ n[1] = "@")

C5_Witness ==
    /\ Returns("ReadnameValidator")
    /\ ArgReads(outcome)[1].name = << "r", "@" >>
    /\ ~Passed(outcome)

C7_PairedNamesEqual ==
    Returns("PairedReadnameValidator") =>
        /\ Passed(outcome) <=>
                ArgReads(outcome)[1].name = ArgReads(outcome)[2].name
        /\ ~Passed(outcome) =>
                outcome.returned[2] = PyStr(PairedReadnameMessage)
        /\ first.validator = "PairedReadnameValidator" =>
                first.returned = outcome.returned

C7_Witness ==
    /\ Returns("PairedReadnameValidator")
    /\ first.validator = "PairedReadnameValidator"
    /\ first.args = << 1, 2 >>
    /\ outcome.args = << 2, 1 >>
    /\ readone.name = << "@", "r" >>
    /\ readtwo.name = << "@" >>
    /\ readone.sequence # readtwo.sequence
    /\ ~Passed(outcome)

\* C8: every validate call returns a pair: TRUE with None, or FALSE with a
\* non-empty text.
C8_OutcomeWellFormed ==
    outcome # Pending =>
        /\ DOMAIN outcome.returned = 1..2
        /\ outcome.returned[1] \in BOOLEAN
        /\ Passed(outcome) => outcome.returned[2] = PyNone
        /\ ~Passed(outcome) =>
            /\ outcome.returned[2].type = "str"
            /\ Len(outcome.returned[2].chars) > 0

C8_Witness ==
    /\ Returns("CompleteReadValidator")
    /\ ncalls = 2
    /\ ~Passed(outcome)
    /\ Passed(first)

Codes(rep) == [i \in 1..Len(rep) |-> rep[i][1]]

CodeSet(rep) == {rep[i][1] : i \in 1..Len(rep)}

\* the codes of the catalog S001 Minimum, S002 Low, S003 High, S004
\* Minimum, P001 Low whose level is at least T, in catalog order
SelectedCodes(ar, T) ==
    CASE ar = "single" /\ T = MINIMUM -> << "S001", "S002", "S003", "S004" >>
      [] ar = "single" /\ T = LOW -> << "S002", "S003" >>
      [] ar = "single" /\ T = HIGH -> << "S003" >>
      [] ar = "paired" /\ T \in {MINIMUM, LOW} -> << "P001" >>
      [] ar = "paired" /\ T = HIGH -> << >>

====
